---- MODULE Spec2Model ----
(***************************************************************************)
(* Model of the flip-open notebook widget (NotebookController).            *)
(*                                                                         *)
(* Two variants of the controller exist in the repository:                 *)
(*   "surface" - src/script.js: full-surface click navigation,             *)
(*               delays 500 ms (open) and 600 ms (page turn);              *)
(*   "buttons" - src/unnamed/part_000: open/prev/next buttons,             *)
(*               delays 1000 ms (open) and 1000 ms (page turn).            *)
(* The variant is fixed at construction.  The controller methods are       *)
(* textually the same in both files except for the delays and for the      *)
(* two button flags written by updateDisplay.                              *)
(*                                                                         *)
(* Timers (setTimeout) are a sequence, in order of creation, of pending    *)
(* callbacks with their timeouts.  The host runs a callback no earlier     *)
(* than its timeout and only after every timer that was started before it  *)
(* with an equal or smaller timeout; no other order is guaranteed, and     *)
(* user events may be delivered between any two callbacks.                 *)
(*                                                                         *)
(* startX and startY are the closure variables of the touch listeners:     *)
(* <<>> stands for null and <<v>> for the number v.  `last` is a history   *)
(* variable: the controller method (or callback) entered last.             *)
(***************************************************************************)
EXTENDS Integers, Sequences, FiniteSets, TLC

VARIABLES variant, present, currentPage, isOpened, isAnimating, pages,
          currentPageSpan, prevBtnDisabled, nextBtnDisabled, timers, last,
          startX, startY

vars == <<variant, present, currentPage, isOpened, isAnimating, pages,
          currentPageSpan, prevBtnDisabled, nextBtnDisabled, timers, last,
          startX, startY>>

\* the controller, its page elements and its timers
core == <<variant, present, currentPage, isOpened, isAnimating, pages,
          currentPageSpan, prevBtnDisabled, nextBtnDisabled, timers>>

----------------------------------------------------------------------------
\* Program constants

totalPages == 4

OpenDelaySurface == 500
TurnDelaySurface == 600
OpenDelayButtons == 1000
TurnDelayButtons == 1000
ReverseStartDelay == 50
SwipeThreshold == 50

\* Bounds of the model

\* pending setTimeout callbacks at any one time
MaxTimers == 2
\* page ordinals for which the document has no element
MaxMissing == 0
\* width of the notebook's bounding rectangle, in click-coordinate units
NotebookWidth == 2

----------------------------------------------------------------------------
Variants == {"surface", "buttons"}
Ordinals == 1..totalPages

OpenDelay == IF variant = "surface" THEN OpenDelaySurface ELSE OpenDelayButtons
TurnDelay == IF variant = "surface" THEN TurnDelaySurface ELSE TurnDelayButtons

\* classList / style.transform of a page element as the document delivers it
InitialPage == [turning |-> FALSE, turned |-> FALSE, hidden |-> FALSE,
                transform |-> ""]

Documents == {S \in SUBSET Ordinals : Cardinality(Ordinals \ S) <= MaxMissing}

\* pageStack.querySelector(`[data-page="${k}"]`) finds an element
hasElement(k) == k \in present

\* >= written for >
IndicatorText_EndAtLastPage(cp) ==
  IF cp = 0 THEN "Cover"
  ELSE IF cp >= totalPages THEN "End"
  ELSE "Page " \o ToString(cp)

\* the text updateDisplay writes into the indicator
IndicatorText(cp) ==
  IF cp = 0 THEN "Cover"
  ELSE IF cp > totalPages THEN "End"
  ELSE "Page " \o ToString(cp)

\* updateDisplay(), run when currentPage has the value cp
updateDisplay(cp) ==
  /\ currentPageSpan' = IndicatorText(cp)
  /\ IF variant = "buttons"
       THEN /\ prevBtnDisabled' = (cp <= 1)
            /\ nextBtnDisabled' = (cp >= totalPages)
       ELSE UNCHANGED <<prevBtnDisabled, nextBtnDisabled>>

noDisplayUpdate == UNCHANGED <<currentPageSpan, prevBtnDisabled, nextBtnDisabled>>

\* no touch listener runs, or it leaves its closure variables alone
noTouch == UNCHANGED <<startX, startY>>

Called(op, page, res) == last' = [op |-> op, page |-> page, res |-> res]

setTimeout(kind, page, delay) ==
  /\ Len(timers) < MaxTimers
  /\ timers' = Append(timers, [kind |-> kind, page |-> page, delay |-> delay])

----------------------------------------------------------------------------
\* State after `new NotebookController()`
Init ==
  /\ variant \in Variants
  /\ present \in Documents
  /\ currentPage = 0
  /\ isOpened = FALSE
  /\ isAnimating = FALSE
  /\ pages = [j \in Ordinals |-> InitialPage]
  /\ currentPageSpan = IndicatorText(0)
  /\ prevBtnDisabled = (variant = "buttons")
  /\ nextBtnDisabled = FALSE
  /\ timers = <<>>
  /\ last = [op |-> "constructor", page |-> 0, res |-> "none"]
  /\ startX = <<>>
  /\ startY = <<>>

----------------------------------------------------------------------------
\* Controller methods

initializePageStates ==
  [j \in Ordinals |->
     IF hasElement(j)
       THEN [pages[j] EXCEPT !.transform = "", !.turned = FALSE, !.hidden = FALSE]
       ELSE pages[j]]

\* && written for ||
openNotebookRejects_And == isAnimating /\ isOpened

openNotebookRejects == isAnimating \/ isOpened

openNotebook ==
  IF openNotebookRejects
    THEN /\ UNCHANGED core
         /\ Called("openNotebook", currentPage, "rejected")
    ELSE /\ isAnimating' = TRUE
         /\ isOpened' = TRUE
         /\ currentPage' = 1
         /\ pages' = initializePageStates
         /\ setTimeout("open", 0, OpenDelay)
         /\ noDisplayUpdate
         /\ UNCHANGED <<variant, present>>
         /\ Called("openNotebook", currentPage, "started")

\* the lock is not consulted
nextPageRejects_NoLock == currentPage >= totalPages

\* the upper bound is not checked
nextPageRejects_NoBound == isAnimating

nextPageRejects == isAnimating \/ currentPage >= totalPages

nextPage ==
  IF nextPageRejects
    THEN /\ UNCHANGED core
         /\ Called("nextPage", currentPage, "rejected")
    ELSE /\ isAnimating' = TRUE
         /\ IF hasElement(currentPage)
              THEN /\ pages' = [pages EXCEPT ![currentPage].turning = TRUE]
                   /\ setTimeout("next", currentPage, TurnDelay)
                   /\ Called("nextPage", currentPage, "started")
              ELSE /\ UNCHANGED <<pages, timers>>
                   /\ Called("nextPage", currentPage, "noElement")
         /\ noDisplayUpdate
         /\ UNCHANGED <<variant, present, currentPage, isOpened>>

\* the clamp is left out
pageAfterTurn_NoClamp(cp) == cp + 1

\* this.currentPage++ followed by the clamp of the "turned all pages" branch
pageAfterTurn(cp) == IF cp + 1 > totalPages THEN totalPages + 1 ELSE cp + 1

\* the timeout callback of nextPage; p is the captured currentPageElement
nextPageCallback(p) ==
  /\ currentPage' = pageAfterTurn(currentPage)
  /\ pages' = [pages EXCEPT ![p] =
                 [@ EXCEPT !.turning = FALSE, !.turned = TRUE,
                           !.hidden = IF currentPage + 1 > totalPages
                                        THEN TRUE ELSE @]]
  /\ isAnimating' = FALSE
  /\ updateDisplay(currentPage')
  /\ UNCHANGED <<variant, present, isOpened>>
  /\ Called("nextPageCallback", p, "done")

\* the lower bound is not checked
previousPageRejects_NoBound == isAnimating

previousPageRejects == isAnimating \/ currentPage <= 1

previousPage ==
  IF previousPageRejects
    THEN /\ UNCHANGED core
         /\ Called("previousPage", currentPage, "rejected")
    ELSE LET p == currentPage - 1 IN
         /\ currentPage' = p
         /\ UNCHANGED <<variant, present, isOpened>>
         /\ IF hasElement(p)
              THEN IF pages[p].turned
                     THEN /\ pages' = [pages EXCEPT ![p] =
                                [@ EXCEPT !.hidden = FALSE,
                                          !.transform = "rotateY(-180deg)"]]
                          /\ isAnimating' = TRUE
                          /\ setTimeout("reverseStart", p, ReverseStartDelay)
                          /\ noDisplayUpdate
                          /\ Called("previousPage", currentPage, "started")
                     ELSE /\ pages' = [pages EXCEPT ![p].hidden = FALSE]
                          /\ isAnimating' = FALSE
                          /\ updateDisplay(p)
                          /\ UNCHANGED timers
                          /\ Called("previousPage", currentPage, "immediate")
              ELSE /\ isAnimating' = TRUE
                   /\ UNCHANGED <<pages, timers>>
                   /\ noDisplayUpdate
                   /\ Called("previousPage", currentPage, "noElement")

\* the inner (second) timeout callback of previousPage
previousPageCallback(p) ==
  /\ pages' = [pages EXCEPT ![p] = [@ EXCEPT !.turning = FALSE, !.turned = FALSE]]
  /\ isAnimating' = FALSE
  /\ updateDisplay(currentPage)
  /\ UNCHANGED <<variant, present, currentPage, isOpened>>
  /\ Called("previousPageCallback", p, "done")

\* 'turned' is removed along with 'turning'
resetTransient_AlsoTurned ==
  [j \in Ordinals |->
     IF hasElement(j)
       THEN [pages[j] EXCEPT !.turning = FALSE, !.turned = FALSE, !.transform = ""]
       ELSE pages[j]]

\* what handleResize does to each element of this.pages
resetTransient ==
  [j \in Ordinals |->
     IF hasElement(j)
       THEN [pages[j] EXCEPT !.turning = FALSE, !.transform = ""]
       ELSE pages[j]]

\* the display is not refreshed
handleResize_NoRefresh ==
  IF isAnimating
    THEN /\ pages' = resetTransient
         /\ isAnimating' = FALSE
         /\ noDisplayUpdate
         /\ UNCHANGED <<variant, present, currentPage, isOpened, timers>>
         /\ Called("handleResize", currentPage, "reset")
    ELSE /\ UNCHANGED core
         /\ Called("handleResize", currentPage, "idle")

handleResize ==
  IF isAnimating
    THEN /\ pages' = resetTransient
         /\ isAnimating' = FALSE
         /\ updateDisplay(currentPage)
         /\ UNCHANGED <<variant, present, currentPage, isOpened, timers>>
         /\ Called("handleResize", currentPage, "reset")
    ELSE /\ UNCHANGED core
         /\ Called("handleResize", currentPage, "idle")

\* a handler that returns without calling the controller
Ignored ==
  /\ UNCHANGED core
  /\ Called("none", currentPage, "none")

----------------------------------------------------------------------------
\* Timers

\* Timer i may run now: every pending timer that was started before it with
\* a timeout equal to or less than its own has completed.
mayRun(i) == \A j \in 1..(i - 1) : timers[j].delay > timers[i].delay

withoutTimer(i) == SubSeq(timers, 1, i - 1) \o SubSeq(timers, i + 1, Len(timers))

\* the timeout callback of openNotebook
OpenTimeout ==
  \E i \in 1..Len(timers) :
    /\ mayRun(i)
    /\ timers[i].kind = "open"
    /\ timers' = withoutTimer(i)
    /\ isAnimating' = FALSE
    /\ updateDisplay(currentPage)
    /\ UNCHANGED <<variant, present, currentPage, isOpened, pages>>
    /\ Called("openCallback", 0, "done")

NextPageTimeout ==
  \E i \in 1..Len(timers) :
    /\ mayRun(i)
    /\ timers[i].kind = "next"
    /\ timers' = withoutTimer(i)
    /\ nextPageCallback(timers[i].page)

\* the outer (50 ms) timeout callback of previousPage
ReverseStartTimeout ==
  \E i \in 1..Len(timers) :
    /\ mayRun(i)
    /\ timers[i].kind = "reverseStart"
    /\ LET p == timers[i].page IN
         /\ pages' = [pages EXCEPT ![p] = [@ EXCEPT !.turning = TRUE, !.transform = ""]]
         /\ timers' = Append(withoutTimer(i),
                             [kind |-> "reverse", page |-> p, delay |-> TurnDelay])
         /\ Called("reverseStart", p, "done")
    /\ noDisplayUpdate
    /\ UNCHANGED <<variant, present, currentPage, isOpened, isAnimating>>

ReverseDoneTimeout ==
  \E i \in 1..Len(timers) :
    /\ mayRun(i)
    /\ timers[i].kind = "reverse"
    /\ timers' = withoutTimer(i)
    /\ previousPageCallback(timers[i].page)

----------------------------------------------------------------------------
\* Input adapters

Keys == {"ArrowLeft", "ArrowUp", "ArrowRight", "ArrowDown", "Enter"}
ClickXs == 0..NotebookWidth
\* what e.target.closest(...) finds for the element hit
SurfaceTargets == {"page", "controls", "other"}
ButtonsTargets == {"controls", "other"}

\* document keydown listener (the same in both variants)
KeyDown(key) ==
  IF ~isOpened \/ isAnimating THEN Ignored
  ELSE IF key \in {"ArrowLeft", "ArrowUp"} THEN previousPage
  ELSE IF key \in {"ArrowRight", "ArrowDown"} THEN nextPage
  ELSE Ignored

\* left/right zoning shared by the notebook click listeners
clickZone(clickX) ==
  IF 2 * clickX < NotebookWidth /\ currentPage > 1 THEN previousPage
  ELSE IF 2 * clickX > NotebookWidth /\ currentPage < totalPages THEN nextPage
  ELSE Ignored

\* notebook click listener of the surface variant
surfaceNotebookClick(target, clickX) ==
  IF ~isOpened /\ target # "controls" THEN openNotebook
  ELSE IF isOpened /\ ~isAnimating /\ target # "controls" THEN clickZone(clickX)
  ELSE Ignored

\* a click in the surface variant: the page listener runs first when a page
\* element was hit and stops propagation once the notebook is opened
SurfaceClick(target, clickX) ==
  /\ variant = "surface"
  /\ IF target = "page" /\ isOpened
       THEN IF ~isAnimating THEN nextPage ELSE Ignored
       ELSE surfaceNotebookClick(target, clickX)

\* notebook click listener of the buttons variant; "controls" is a hit inside
\* .nav-controls, .open-btn or .cover
ButtonsNotebookClick(target, clickX) ==
  /\ variant = "buttons"
  /\ IF ~isOpened \/ isAnimating THEN Ignored
     ELSE IF target # "controls" THEN clickZone(clickX)
     ELSE Ignored

\* The button and cover listeners of the buttons variant.  The click then
\* bubbles to the notebook listener as a hit on a control, which ignores it.
OpenBtnClick ==
  /\ variant = "buttons"
  /\ openNotebook

CoverClick ==
  /\ variant = "buttons"
  /\ IF ~isOpened THEN openNotebook ELSE Ignored

\* a disabled button dispatches no click
PrevBtnClick ==
  /\ variant = "buttons"
  /\ ~prevBtnDisabled
  /\ previousPage

NextBtnClick ==
  /\ variant = "buttons"
  /\ ~nextBtnDisabled
  /\ nextPage

\* window resize listener
Resize == handleResize

\* clientX / clientY of the touch points delivered
TouchXs == {0, 20, 60, 70}
TouchYs == {0, 10, 80}

Abs(n) == IF n < 0 THEN -n ELSE n

\* !v for a closure variable that is null or a number
isFalsy(v) == v = <<>> \/ v[1] = 0

\* touchstart listener
TouchStart(x, y) ==
  /\ startX' = <<x>>
  /\ startY' = <<y>>
  /\ UNCHANGED core
  /\ Called("touchstart", currentPage, "none")

\* touchend listener (the same in both variants)
TouchEnd(endX, endY) ==
  IF isFalsy(startX) \/ isFalsy(startY)
    THEN /\ Ignored
         /\ noTouch
    ELSE LET diffX == startX[1] - endX
             diffY == startY[1] - endY
         IN  /\ IF Abs(diffX) > Abs(diffY) /\ Abs(diffX) > SwipeThreshold
                  THEN IF isOpened /\ ~isAnimating
                         THEN IF diffX > 0 THEN nextPage ELSE previousPage
                         ELSE Ignored
                  ELSE Ignored
             /\ startX' = <<>>
             /\ startY' = <<>>

----------------------------------------------------------------------------
\* the events of a host without a touch screen
Next ==
  \/ noTouch /\ \E target \in SurfaceTargets, clickX \in ClickXs : SurfaceClick(target, clickX)
  \/ noTouch /\ \E target \in ButtonsTargets, clickX \in ClickXs : ButtonsNotebookClick(target, clickX)
  \/ noTouch /\ \E key \in Keys : KeyDown(key)
  \/ noTouch /\ OpenBtnClick
  \/ noTouch /\ CoverClick
  \/ noTouch /\ PrevBtnClick
  \/ noTouch /\ NextBtnClick
  \/ noTouch /\ Resize
  \/ noTouch /\ OpenTimeout
  \/ noTouch /\ NextPageTimeout
  \/ noTouch /\ ReverseStartTimeout
  \/ noTouch /\ ReverseDoneTimeout

Spec == Init /\ [][Next]_vars

----------------------------------------------------------------------------
\* normal navigation: the window is resized only while no animation is in
\* flight
NormalNext ==
  \/ noTouch /\ \E target \in SurfaceTargets, clickX \in ClickXs : SurfaceClick(target, clickX)
  \/ noTouch /\ \E target \in ButtonsTargets, clickX \in ClickXs : ButtonsNotebookClick(target, clickX)
  \/ noTouch /\ \E key \in Keys : KeyDown(key)
  \/ noTouch /\ OpenBtnClick
  \/ noTouch /\ CoverClick
  \/ noTouch /\ PrevBtnClick
  \/ noTouch /\ NextBtnClick
  \/ noTouch /\ ~isAnimating /\ Resize
  \/ noTouch /\ OpenTimeout
  \/ noTouch /\ NextPageTimeout
  \/ noTouch /\ ReverseStartTimeout
  \/ noTouch /\ ReverseDoneTimeout

NormalSpec == Init /\ [][NormalNext]_vars

----------------------------------------------------------------------------
\* a host with a touch screen: the notebook is opened by a click or by the
\* open button and then driven by touches and surface clicks
SwipeNext ==
  \/ \E x \in TouchXs, y \in TouchYs : TouchStart(x, y)
  \/ \E endX \in TouchXs, endY \in TouchYs : TouchEnd(endX, endY)
  \/ noTouch /\ \E target \in SurfaceTargets, clickX \in ClickXs : SurfaceClick(target, clickX)
  \/ noTouch /\ OpenBtnClick
  \/ noTouch /\ OpenTimeout
  \/ noTouch /\ NextPageTimeout
  \/ noTouch /\ ReverseStartTimeout
  \/ noTouch /\ ReverseDoneTimeout

SwipeSpec == Init /\ [][SwipeNext]_vars

----------------------------------------------------------------------------
\* updateDisplay() on its own, applied to a controller at any page index

\* the pages before page cp have been turned
pagesAt(cp) ==
  [j \in Ordinals |->
     IF j < cp THEN [InitialPage EXCEPT !.turned = TRUE] ELSE InitialPage]

\* the display as the previous updateDisplay() left it, at page index shown;
\* a turn of the current page may be in progress
DisplayInit ==
  /\ variant \in Variants
  /\ present = Ordinals
  /\ currentPage \in 0..(totalPages + 1)
  /\ isOpened = (currentPage >= 1)
  /\ isAnimating \in BOOLEAN
  /\ \/ pages = pagesAt(currentPage)
     \/ /\ isAnimating
        /\ currentPage \in Ordinals
        /\ pages = [pagesAt(currentPage) EXCEPT ![currentPage].turning = TRUE]
  /\ \E shown \in 0..(totalPages + 1) :
       /\ shown \in (currentPage - 1)..(currentPage + 1)
       /\ currentPageSpan = IndicatorText(shown)
       /\ prevBtnDisabled = (variant = "buttons" /\ shown <= 1)
       /\ nextBtnDisabled = (variant = "buttons" /\ shown >= totalPages)
  /\ timers = <<>>
  /\ last = [op |-> "constructor", page |-> 0, res |-> "none"]
  /\ startX = <<>>
  /\ startY = <<>>

UpdateDisplay ==
  /\ updateDisplay(currentPage)
  /\ UNCHANGED <<variant, present, currentPage, isOpened, isAnimating, pages,
                 timers>>
  /\ noTouch
  /\ Called("updateDisplay", currentPage, "done")

DisplayNext == UpdateDisplay

DisplaySpec == DisplayInit /\ [][DisplayNext]_vars

----------------------------------------------------------------------------
\* timeouts eventually fire; no event is ever required to arrive
FairSpec ==
  /\ Spec
  /\ WF_vars(noTouch /\ OpenTimeout)
  /\ WF_vars(noTouch /\ NextPageTimeout)
  /\ WF_vars(noTouch /\ ReverseStartTimeout)
  /\ WF_vars(noTouch /\ ReverseDoneTimeout)

----------------------------------------------------------------------------
\* Properties

pendingKinds(kinds) == {i \in 1..Len(timers) : timers[i].kind \in kinds}

\* C1: there is never more than one scheduled-but-not-yet-run completion
\* callback of an advance or a retreat.
C1_AtMostOneTurnInFlight ==
  Cardinality(pendingKinds({"next", "reverseStart", "reverse"})) <= 1

C3_InvalidCallsAreNoOps ==
  [][ ( \/ /\ last'.op = "nextPage"
           /\ (isAnimating \/ currentPage >= totalPages)
        \/ /\ last'.op = "previousPage"
           /\ (isAnimating \/ currentPage <= 1) )
      => UNCHANGED core ]_vars

\* nextPage() was called while an animation's callback was still pending
C3_Witness ==
  /\ last.op = "nextPage"
  /\ last.res = "rejected"
  /\ isAnimating
  /\ currentPage < totalPages
  /\ timers # <<>>

\* C4: openNotebook() called when already opened or while animating changes
\* nothing: no controller state, no page state, no second callback.
C4_OpenIsNoOpWhenOpenedOrAnimating ==
  [][ (last'.op = "openNotebook" /\ (isOpened \/ isAnimating))
      => UNCHANGED core ]_vars

\* a second open() arrived before the first open's callback ran
C4_Witness ==
  /\ last.op = "openNotebook"
  /\ last.res = "rejected"
  /\ isAnimating
  /\ pendingKinds({"open"}) # {}

\* C5: nextPage() called while the notebook is not opened leaves currentPage,
\* isAnimating and all page states unchanged.
C5_AdvanceOnlyWhenOpened ==
  [][ (last'.op = "nextPage" /\ ~isOpened)
      => UNCHANGED <<currentPage, isAnimating, pages>> ]_vars

\* C6: when the callback of an advance accepted at page k runs, currentPage
\* is still k before it and k+1 after it, and page k is turned and no longer
\* turning.
C6_AdvanceCompletesAtNextPage ==
  [][ last'.op = "nextPageCallback"
      => /\ currentPage = last'.page
         /\ currentPage' = last'.page + 1
         /\ pages'[last'.page].turned
         /\ ~pages'[last'.page].turning ]_vars

\* C7: an accepted retreat decrements currentPage at once; if the page
\* returned to was not turned the lock is released in the same call; when
\* the reverse animation's last callback has run, that page is in its
\* initial presentation state, currentPage is the page returned to and the
\* lock is released.
C7_RetreatRestoresPage ==
  [][ /\ (last'.op = "previousPage" /\ ~isAnimating /\ currentPage > 1)
           => /\ currentPage' = currentPage - 1
              /\ (hasElement(currentPage - 1) /\ ~pages[currentPage - 1].turned)
                    => ~isAnimating'
      /\ last'.op = "previousPageCallback"
           => /\ pages'[last'.page] = InitialPage
              /\ currentPage' = last'.page
              /\ ~isAnimating' ]_vars

\* C8: handleResize() while animating removes 'turning' and the transform
\* from every page, releases the lock and rewrites the indicator from
\* currentPage, and leaves currentPage, isOpened and every page's
\* turned/hidden alone; while not animating it changes nothing.
C8_ResizeFrame ==
  [][ last'.op = "handleResize"
      => IF isAnimating
           THEN /\ \A j \in Ordinals :
                     /\ ~pages'[j].turning
                     /\ pages'[j].transform = ""
                     /\ pages'[j].turned = pages[j].turned
                     /\ pages'[j].hidden = pages[j].hidden
                /\ ~isAnimating'
                /\ currentPageSpan' = IndicatorText(currentPage)
                /\ UNCHANGED <<currentPage, isOpened>>
           ELSE UNCHANGED core ]_vars

\* a resize interrupted a page turn whose callback is still pending
C8_Witness ==
  /\ last.op = "handleResize"
  /\ last.res = "reset"
  /\ pendingKinds({"next"}) # {}
  /\ \E j \in Ordinals : pages[j].turned
  /\ ~isAnimating

\* C9: whenever the lock is taken it is released again by the scheduled
\* callbacks alone (timeouts fire; no resize is required to arrive).
C9_LockAlwaysClears == isAnimating ~> ~isAnimating

\* C10: nextPage() / previousPage() whose page element is missing leave
\* currentPage, isAnimating and all page states as they were.
C10_MissingElementIsDropped ==
  [][ ( \/ /\ last'.op = "nextPage"
           /\ ~hasElement(currentPage)
        \/ /\ last'.op = "previousPage"
           /\ ~hasElement(currentPage - 1) )
      => UNCHANGED <<currentPage, isAnimating, pages>> ]_vars

\* C11: updateDisplay() writes 'Cover' at 0, 'Page k' at k in 1..totalPages
\* and 'End' at totalPages+1, and modifies neither currentPage, isOpened,
\* isAnimating nor any page state.
C11_IndicatorIsProjection ==
  [][ last'.op = "updateDisplay"
      => /\ (currentPage = 0) => (currentPageSpan' = "Cover")
         /\ \A k \in 1..totalPages :
              (currentPage = k) =>
                 (currentPageSpan' = <<"Page 1", "Page 2", "Page 3", "Page 4">>[k])
         /\ (currentPage = totalPages + 1) => (currentPageSpan' = "End")
         /\ UNCHANGED <<currentPage, isOpened, isAnimating, pages>> ]_vars

\* updateDisplay() ran at the last content page while the indicator still
\* showed the page before it
C11_Witness ==
  /\ last.op = "updateDisplay"
  /\ currentPage = totalPages
  /\ currentPageSpan = "Page 4"
  /\ pages[totalPages - 1].turned

\* C12: with the notebook opened and not animating, a touch that started at
\* any point (coordinate 0 included) and ends at any point calls a navigation
\* method exactly when |dx| > 50 and |dx| > |dy|; it calls nextPage when the
\* start x is greater than the end x and previousPage when it is smaller.
C12_SwipeDetection ==
  [][ \A endX \in TouchXs, endY \in TouchYs :
        ( /\ startX # <<>>
          /\ startY # <<>>
          /\ isOpened
          /\ ~isAnimating
          /\ TouchEnd(endX, endY) )
        => LET dx == startX[1] - endX
               dy == startY[1] - endY
           IN  /\ (last'.op \in {"nextPage", "previousPage"})
                     <=> (Abs(dx) > 50 /\ Abs(dx) > Abs(dy))
               /\ (last'.op = "nextPage") => (startX[1] > endX)
               /\ (last'.op = "previousPage") => (startX[1] < endX) ]_vars

\* C13: with the notebook opened and not animating, a click outside the
\* controls on the left half never calls nextPage and one on the right half
\* never calls previousPage, whatever element was hit; previousPage is called
\* only when currentPage > 1 and nextPage only when currentPage < totalPages;
\* a click on a control calls neither.
C13_ClickZoning ==
  [][ \A target \in SurfaceTargets, clickX \in ClickXs :
        ( /\ isOpened
          /\ ~isAnimating
          /\ \/ SurfaceClick(target, clickX)
             \/ target \in ButtonsTargets /\ ButtonsNotebookClick(target, clickX) )
        => /\ (target # "controls" /\ 2 * clickX < NotebookWidth)
                 => (last'.op # "nextPage")
           /\ (target # "controls" /\ 2 * clickX > NotebookWidth)
                 => (last'.op # "previousPage")
           /\ (last'.op = "previousPage") => (currentPage > 1)
           /\ (last'.op = "nextPage") => (currentPage < totalPages)
           /\ (target = "controls")
                 => (last'.op \notin {"nextPage", "previousPage"}) ]_vars

\* C14: when the notebook is opened, not animating and no callback is
\* pending, page j is turned exactly when j < currentPage, and no page is
\* turning.
C14_PagesMatchIndex ==
  (isOpened /\ ~isAnimating /\ timers = <<>>)
    => \A j \in Ordinals :
         /\ pages[j].turned <=> (j < currentPage)
         /\ ~pages[j].turning

\* C15: whenever isAnimating is false the indicator shows the label of the
\* current currentPage.
C15_IndicatorFreshWhenIdle ==
  ~isAnimating => (currentPageSpan = IndicatorText(currentPage))

\* a resize released the lock during the opening animation and refreshed the
\* indicator, which had still shown 'Cover'
C15_Witness ==
  /\ last.op = "handleResize"
  /\ last.res = "reset"
  /\ ~isAnimating
  /\ currentPage = 1
  /\ currentPageSpan = "Page 1"
  /\ pendingKinds({"open"}) # {}

\* C16: when no resize arrives during an animation, currentPage never
\* exceeds totalPages, the last page is never turned, no page is ever hidden
\* and the indicator never shows 'End'.
C16_EndUnreachable ==
  /\ currentPage <= totalPages
  /\ ~pages[totalPages].turned
  /\ \A j \in Ordinals : ~pages[j].hidden
  /\ currentPageSpan # "End"

\* an advance was requested at the last page and refused
C16_Witness ==
  /\ last.op = "nextPage"
  /\ last.res = "rejected"
  /\ ~isAnimating
  /\ currentPage = totalPages
  /\ pages[totalPages - 1].turned

\* C17: isOpened is true exactly when currentPage >= 1, and once isOpened
\* is true it stays true and currentPage does not return to 0.
C17_OpeningIsOneWay ==
  [][ /\ isOpened <=> (currentPage >= 1)
      /\ isOpened' <=> (currentPage' >= 1)
      /\ isOpened => (isOpened' /\ currentPage' >= 1) ]_vars

\* a retreat was requested at the first page and refused
C17_Witness ==
  /\ last.op = "previousPage"
  /\ last.res = "rejected"
  /\ ~isAnimating
  /\ isOpened
  /\ currentPage = 1

====
